---------------------------- MODULE Spec2Model ----------------------------
(***************************************************************************)
(* Homestead EVM instruction handlers (arithmetic, block, storage) acting  *)
(* on one execution frame.                                                 *)
(*                                                                         *)
(* A word is WordBits wide instead of 256 bits: TLC's integers cannot hold *)
(* 2^256.  Every width-dependent quantity (U256_CEIL_VALUE,                *)
(* U255_CEIL_VALUE, the largest byte index of signextend) is derived from  *)
(* WordBits, so the two's-complement and wrap-around cases are the same    *)
(* cases at the smaller width.                                             *)
(*                                                                         *)
(* The stack is a sequence whose last element is the top, as the Python    *)
(* list the handlers pop from and append to.                               *)
(***************************************************************************)
EXTENDS Integers, Sequences, FiniteSets, TLC

VARIABLES
    stack,           \* evm.stack
    gas_left,        \* evm.gas_left
    refund_counter,  \* evm.refund_counter
    pc,              \* evm.pc
    state,           \* evm.env.state: address -> (key -> non-zero word)
    current_target,  \* evm.message.current_target
    env,             \* evm.env (number, block_hashes, coinbase, ...)
    op,              \* the handler called last ("init" before any call)
    fault,           \* how that call ended: "none" or the exception raised
    pre              \* the frame as it was when that handler was called

vars == <<stack, gas_left, refund_counter, pc, state, current_target, env,
          op, fault, pre>>

-----------------------------------------------------------------------------
(* Bounds of the model *)

WordBits == 9

MaxCalls == 2

-----------------------------------------------------------------------------
(* Constants of the program *)

GAS_BASE == 2

GAS_VERY_LOW == 3

GAS_LOW == 5

GAS_MID == 8

GAS_EXPONENTIATION == 10

GAS_EXTERNAL == 20

GAS_SLOAD == 50

GAS_STORAGE_UPDATE == 5000

GAS_STORAGE_CLEAR_REFUND == 15000

GAS_STORAGE_SET == 20000

STACK_LIMIT == 1024

BLOCK_HASH_WINDOW == 256

U256_CEIL_VALUE == 2 ^ WordBits

U255_CEIL_VALUE == 2 ^ (WordBits - 1)

U256_MAX_VALUE == U256_CEIL_VALUE - 1

MaxByteIndex == (WordBits \div 8) - 1

Word == 0 .. U256_MAX_VALUE

-----------------------------------------------------------------------------
(* Word and integer helpers *)

to_signed(v) == IF v < U255_CEIL_VALUE THEN v ELSE v - U256_CEIL_VALUE

from_signed(v) == IF v >= 0 THEN v ELSE v % U256_CEIL_VALUE

get_sign(v) == IF v < 0 THEN -1 ELSE IF v = 0 THEN 0 ELSE 1

abs(v) == IF v < 0 THEN -v ELSE v

wrapping_add(x, y) == (x + y) % U256_CEIL_VALUE

wrapping_sub(x, y) == (x - y) % U256_CEIL_VALUE

wrapping_mul(x, y) == (x * y) % U256_CEIL_VALUE

RECURSIVE bit_length(_)
bit_length(n) == IF n = 0 THEN 0 ELSE 1 + bit_length(n \div 2)

RECURSIVE pow(_, _, _)
pow(base, exponent, modulus) ==
    IF exponent = 0 THEN 1 % modulus
    ELSE LET half == pow(base, exponent \div 2, modulus)
             square == (half * half) % modulus
         IN  IF exponent % 2 = 0 THEN square ELSE (square * base) % modulus

\* U256.__add__ is the checked addition: it raises when the sum leaves the
\* word range (wrapping_add is the one that wraps).
checked_add_raises(x, y) == x + y > U256_MAX_VALUE

\* U256.from_be_bytes of a hash; b"\x00" is the zero word.  Hashes are
\* carried as the words they decode to.
from_be_bytes(h) == h

-----------------------------------------------------------------------------
(* The frame and the primitives the handlers call *)

Evm == [stack |-> stack, gas_left |-> gas_left,
        refund_counter |-> refund_counter, pc |-> pc, state |-> state,
        fault |-> "none", val |-> 0]

Faulted(evm) == evm.fault # "none"

Raise(evm, exc) == [evm EXCEPT !.fault = exc]

subtract_gas(evm, amount) ==
    IF evm.gas_left < amount THEN Raise(evm, "OutOfGas")
    ELSE [evm EXCEPT !.gas_left = @ - amount]

\* pop leaves the popped word in val
pop(evm) ==
    IF Len(evm.stack) = 0 THEN Raise(evm, "StackUnderflow")
    ELSE [evm EXCEPT !.val = evm.stack[Len(evm.stack)],
                     !.stack = SubSeq(@, 1, Len(@) - 1)]

push(evm, value) ==
    IF Len(evm.stack) = STACK_LIMIT THEN Raise(evm, "StackOverflow")
    ELSE [evm EXCEPT !.stack = Append(@, value)]

\* push(evm.stack, value); evm.pc += 1
push_and_advance(evm, value) ==
    LET e == push(evm, value)
    IN  IF Faulted(e) THEN e ELSE [e EXCEPT !.pc = @ + 1]

get_storage(st, address, key) ==
    IF key \in DOMAIN st[address] THEN st[address][key] ELSE 0

set_storage(st, address, key, value) ==
    LET old == st[address]
        new == IF value = 0
               THEN [k \in (DOMAIN old) \ {key} |-> old[k]]
               ELSE [k \in (DOMAIN old) \cup {key} |->
                        IF k = key THEN value ELSE old[k]]
    IN  [st EXCEPT ![address] = new]

-----------------------------------------------------------------------------
(* Arithmetic instructions.  Each handler maps the frame it is called on   *)
(* to the frame it leaves behind; fault names the exception it raised.     *)

\* add that subtracts its cost without the check of subtract_gas
add_unchecked_charge(evm) ==
    LET e1 == [evm EXCEPT !.gas_left = @ - GAS_VERY_LOW]
        e2 == pop(e1) IN
    IF Faulted(e2) THEN e2 ELSE
    LET e3 == pop(e2) IN
    IF Faulted(e3) THEN e3 ELSE
    LET x == e2.val
        y == e3.val
        result == wrapping_add(x, y)
    IN  push_and_advance(e3, result)

add(evm) ==
    LET e1 == subtract_gas(evm, GAS_VERY_LOW) IN
    IF Faulted(e1) THEN e1 ELSE
    LET e2 == pop(e1) IN
    IF Faulted(e2) THEN e2 ELSE
    LET e3 == pop(e2) IN
    IF Faulted(e3) THEN e3 ELSE
    LET x == e2.val
        y == e3.val
        result == wrapping_add(x, y)
    IN  push_and_advance(e3, result)

sub(evm) ==
    LET e1 == subtract_gas(evm, GAS_VERY_LOW) IN
    IF Faulted(e1) THEN e1 ELSE
    LET e2 == pop(e1) IN
    IF Faulted(e2) THEN e2 ELSE
    LET e3 == pop(e2) IN
    IF Faulted(e3) THEN e3 ELSE
    LET x == e2.val
        y == e3.val
        result == wrapping_sub(x, y)
    IN  push_and_advance(e3, result)

mul(evm) ==
    LET e1 == subtract_gas(evm, GAS_LOW) IN
    IF Faulted(e1) THEN e1 ELSE
    LET e2 == pop(e1) IN
    IF Faulted(e2) THEN e2 ELSE
    LET e3 == pop(e2) IN
    IF Faulted(e3) THEN e3 ELSE
    LET x == e2.val
        y == e3.val
        result == wrapping_mul(x, y)
    IN  push_and_advance(e3, result)

div(evm) ==
    LET e1 == subtract_gas(evm, GAS_LOW) IN
    IF Faulted(e1) THEN e1 ELSE
    LET e2 == pop(e1) IN
    IF Faulted(e2) THEN e2 ELSE
    LET e3 == pop(e2) IN
    IF Faulted(e3) THEN e3 ELSE
    LET dividend == e2.val
        divisor == e3.val
        quotient == IF divisor = 0 THEN 0 ELSE dividend \div divisor
    IN  push_and_advance(e3, quotient)

\* sdiv with Python's floor division applied to the signed operands
sdiv_floor(evm) ==
    LET e1 == subtract_gas(evm, GAS_LOW) IN
    IF Faulted(e1) THEN e1 ELSE
    LET e2 == pop(e1) IN
    IF Faulted(e2) THEN e2 ELSE
    LET e3 == pop(e2) IN
    IF Faulted(e3) THEN e3 ELSE
    LET dividend == to_signed(e2.val)
        divisor == to_signed(e3.val)
        floordiv == IF get_sign(dividend * divisor) >= 0
                    THEN abs(dividend) \div abs(divisor)
                    ELSE -((abs(dividend) + abs(divisor) - 1) \div abs(divisor))
        quotient == IF divisor = 0 THEN 0 ELSE floordiv
    IN  push_and_advance(e3, from_signed(quotient))

sdiv(evm) ==
    LET e1 == subtract_gas(evm, GAS_LOW) IN
    IF Faulted(e1) THEN e1 ELSE
    LET e2 == pop(e1) IN
    IF Faulted(e2) THEN e2 ELSE
    LET e3 == pop(e2) IN
    IF Faulted(e3) THEN e3 ELSE
    LET dividend == to_signed(e2.val)
        divisor == to_signed(e3.val)
        sign == get_sign(dividend * divisor)
        quotient == IF divisor = 0 THEN 0
                    ELSE IF dividend = -U255_CEIL_VALUE /\ divisor = -1
                         THEN -U255_CEIL_VALUE
                         ELSE sign * (abs(dividend) \div abs(divisor))
    IN  push_and_advance(e3, from_signed(quotient))

mod(evm) ==
    LET e1 == subtract_gas(evm, GAS_LOW) IN
    IF Faulted(e1) THEN e1 ELSE
    LET e2 == pop(e1) IN
    IF Faulted(e2) THEN e2 ELSE
    LET e3 == pop(e2) IN
    IF Faulted(e3) THEN e3 ELSE
    LET x == e2.val
        y == e3.val
        remainder == IF y = 0 THEN 0 ELSE x % y
    IN  push_and_advance(e3, remainder)

smod(evm) ==
    LET e1 == subtract_gas(evm, GAS_LOW) IN
    IF Faulted(e1) THEN e1 ELSE
    LET e2 == pop(e1) IN
    IF Faulted(e2) THEN e2 ELSE
    LET e3 == pop(e2) IN
    IF Faulted(e3) THEN e3 ELSE
    LET x == to_signed(e2.val)
        y == to_signed(e3.val)
        remainder == IF y = 0 THEN 0 ELSE get_sign(x) * (abs(x) % abs(y))
    IN  push_and_advance(e3, from_signed(remainder))

addmod(evm) ==
    LET e1 == subtract_gas(evm, GAS_MID) IN
    IF Faulted(e1) THEN e1 ELSE
    LET e2 == pop(e1) IN
    IF Faulted(e2) THEN e2 ELSE
    LET e3 == pop(e2) IN
    IF Faulted(e3) THEN e3 ELSE
    LET e4 == pop(e3) IN
    IF Faulted(e4) THEN e4 ELSE
    LET x == e2.val
        y == e3.val
        z == e4.val
        result == IF z = 0 THEN 0 ELSE (x + y) % z
    IN  push_and_advance(e4, result)

\* mulmod that pops its operands before it charges
mulmod_pop_first(evm) ==
    LET e2 == pop(evm) IN
    IF Faulted(e2) THEN e2 ELSE
    LET e3 == pop(e2) IN
    IF Faulted(e3) THEN e3 ELSE
    LET e4 == pop(e3) IN
    IF Faulted(e4) THEN e4 ELSE
    LET e1 == subtract_gas(e4, GAS_MID) IN
    IF Faulted(e1) THEN e1 ELSE
    LET x == e2.val
        y == e3.val
        z == e4.val
        result == IF z = 0 THEN 0 ELSE (x * y) % z
    IN  push_and_advance(e1, result)

mulmod(evm) ==
    LET e1 == subtract_gas(evm, GAS_MID) IN
    IF Faulted(e1) THEN e1 ELSE
    LET e2 == pop(e1) IN
    IF Faulted(e2) THEN e2 ELSE
    LET e3 == pop(e2) IN
    IF Faulted(e3) THEN e3 ELSE
    LET e4 == pop(e3) IN
    IF Faulted(e4) THEN e4 ELSE
    LET x == e2.val
        y == e3.val
        z == e4.val
        result == IF z = 0 THEN 0 ELSE (x * y) % z
    IN  push_and_advance(e4, result)

exp_gas_used(exponent) ==
    IF exponent # 0
    THEN GAS_EXPONENTIATION
           + GAS_EXPONENTIATION * ((bit_length(exponent) + 7) \div 8)
    ELSE GAS_EXPONENTIATION

\* exp that charges the base cost only
exp_flat_cost(evm) ==
    LET e1 == pop(evm) IN
    IF Faulted(e1) THEN e1 ELSE
    LET e2 == pop(e1) IN
    IF Faulted(e2) THEN e2 ELSE
    LET base == e1.val
        exponent == e2.val
        e3 == subtract_gas(e2, GAS_EXPONENTIATION)
    IN  IF Faulted(e3) THEN e3 ELSE
        push_and_advance(e3, pow(base, exponent, U256_CEIL_VALUE))

exp(evm) ==
    LET e1 == pop(evm) IN
    IF Faulted(e1) THEN e1 ELSE
    LET e2 == pop(e1) IN
    IF Faulted(e2) THEN e2 ELSE
    LET base == e1.val
        exponent == e2.val
        e3 == subtract_gas(e2, exp_gas_used(exponent))
    IN  IF Faulted(e3) THEN e3 ELSE
        push_and_advance(e3, pow(base, exponent, U256_CEIL_VALUE))

signextend(evm) ==
    LET e1 == subtract_gas(evm, GAS_LOW) IN
    IF Faulted(e1) THEN e1 ELSE
    LET e2 == pop(e1) IN
    IF Faulted(e2) THEN e2 ELSE
    LET e3 == pop(e2) IN
    IF Faulted(e3) THEN e3 ELSE
    LET bits == e2.val
        value == e3.val
        testbit == bits * 8 + 7
        sign_bit == 2 ^ testbit
        result == IF bits <= MaxByteIndex
                  THEN IF (value \div sign_bit) % 2 = 1
                       THEN (value % sign_bit) + (U256_CEIL_VALUE - sign_bit)
                       ELSE value % sign_bit
                  ELSE value
    IN  push_and_advance(e3, result)

-----------------------------------------------------------------------------
(* Block instructions *)

block_hash(evm) ==
    LET e1 == subtract_gas(evm, GAS_EXTERNAL) IN
    IF Faulted(e1) THEN e1 ELSE
    LET e2 == pop(e1) IN
    IF Faulted(e2) THEN e2 ELSE
    LET block_number == e2.val IN
    IF checked_add_raises(block_number, 1) THEN Raise(e2, "ValueError") ELSE
    LET depth == env.number - block_number - 1
        is_ancestor_depth_out_of_range ==
            \/ env.number < block_number + 1
            \/ depth >= BLOCK_HASH_WINDOW
            \/ depth < 0
        _hash == IF is_ancestor_depth_out_of_range THEN 0
                 ELSE IF depth >= Len(env.block_hashes) THEN 0
                 ELSE env.block_hashes[depth + 1]
    IN  push_and_advance(e2, from_be_bytes(_hash))

\* coinbase that appends to the stack without the limit check of push
coinbase_raw_append(evm) ==
    LET e1 == subtract_gas(evm, GAS_BASE) IN
    IF Faulted(e1) THEN e1 ELSE
    [e1 EXCEPT !.stack = Append(@, from_be_bytes(env.coinbase)), !.pc = @ + 1]

coinbase(evm) ==
    LET e1 == subtract_gas(evm, GAS_BASE) IN
    IF Faulted(e1) THEN e1 ELSE
    push_and_advance(e1, from_be_bytes(env.coinbase))

timestamp(evm) ==
    LET e1 == subtract_gas(evm, GAS_BASE) IN
    IF Faulted(e1) THEN e1 ELSE
    push_and_advance(e1, env.time)

number(evm) ==
    LET e1 == subtract_gas(evm, GAS_BASE) IN
    IF Faulted(e1) THEN e1 ELSE
    push_and_advance(e1, env.number)

difficulty(evm) ==
    LET e1 == subtract_gas(evm, GAS_BASE) IN
    IF Faulted(e1) THEN e1 ELSE
    push_and_advance(e1, env.difficulty)

gas_limit(evm) ==
    LET e1 == subtract_gas(evm, GAS_BASE) IN
    IF Faulted(e1) THEN e1 ELSE
    push_and_advance(e1, env.gas_limit)

-----------------------------------------------------------------------------
(* Storage instructions *)

\* Storage keys are carried as the words whose 32-byte big-endian encoding
\* they are.
to_be_bytes32(v) == v

sload(evm) ==
    LET e1 == subtract_gas(evm, GAS_SLOAD) IN
    IF Faulted(e1) THEN e1 ELSE
    LET e2 == pop(e1) IN
    IF Faulted(e2) THEN e2 ELSE
    LET key == to_be_bytes32(e2.val)
        value == get_storage(e2.state, current_target, key)
    IN  push_and_advance(e2, value)

\* sstore that always charges the update cost
sstore_flat_cost(evm) ==
    LET e1 == pop(evm) IN
    IF Faulted(e1) THEN e1 ELSE
    LET e2 == pop(e1) IN
    IF Faulted(e2) THEN e2 ELSE
    LET key == to_be_bytes32(e1.val)
        new_value == e2.val
        current_value == get_storage(e2.state, current_target, key)
        e3 == subtract_gas(e2, GAS_STORAGE_UPDATE)
    IN  IF Faulted(e3) THEN e3 ELSE
        [e3 EXCEPT
            !.refund_counter =
                IF new_value = 0 /\ current_value # 0
                THEN @ + GAS_STORAGE_CLEAR_REFUND ELSE @,
            !.state = set_storage(@, current_target, key, new_value),
            !.pc = @ + 1]

\* sstore that accrues the refund whenever it stores zero
sstore_refund_any_zero(evm) ==
    LET e1 == pop(evm) IN
    IF Faulted(e1) THEN e1 ELSE
    LET e2 == pop(e1) IN
    IF Faulted(e2) THEN e2 ELSE
    LET key == to_be_bytes32(e1.val)
        new_value == e2.val
        current_value == get_storage(e2.state, current_target, key)
        gas_cost == IF new_value # 0 /\ current_value = 0
                    THEN GAS_STORAGE_SET ELSE GAS_STORAGE_UPDATE
        e3 == subtract_gas(e2, gas_cost)
    IN  IF Faulted(e3) THEN e3 ELSE
        [e3 EXCEPT
            !.refund_counter =
                IF new_value = 0
                THEN @ + GAS_STORAGE_CLEAR_REFUND ELSE @,
            !.state = set_storage(@, current_target, key, new_value),
            !.pc = @ + 1]

\* sstore that writes before it charges
sstore_write_first(evm) ==
    LET e1 == pop(evm) IN
    IF Faulted(e1) THEN e1 ELSE
    LET e2 == pop(e1) IN
    IF Faulted(e2) THEN e2 ELSE
    LET key == to_be_bytes32(e1.val)
        new_value == e2.val
        current_value == get_storage(e2.state, current_target, key)
        gas_cost == IF new_value # 0 /\ current_value = 0
                    THEN GAS_STORAGE_SET ELSE GAS_STORAGE_UPDATE
        e3 == [e2 EXCEPT
                  !.state = set_storage(@, current_target, key, new_value)]
        e4 == subtract_gas(e3, gas_cost)
    IN  IF Faulted(e4) THEN e4 ELSE
        [e4 EXCEPT
            !.refund_counter =
                IF new_value = 0 /\ current_value # 0
                THEN @ + GAS_STORAGE_CLEAR_REFUND ELSE @,
            !.pc = @ + 1]

sstore(evm) ==
    LET e1 == pop(evm) IN
    IF Faulted(e1) THEN e1 ELSE
    LET e2 == pop(e1) IN
    IF Faulted(e2) THEN e2 ELSE
    LET key == to_be_bytes32(e1.val)
        new_value == e2.val
        current_value == get_storage(e2.state, current_target, key)
        gas_cost == IF new_value # 0 /\ current_value = 0
                    THEN GAS_STORAGE_SET ELSE GAS_STORAGE_UPDATE
        e3 == subtract_gas(e2, gas_cost)
    IN  IF Faulted(e3) THEN e3 ELSE
        [e3 EXCEPT
            !.refund_counter =
                IF new_value = 0 /\ current_value # 0
                THEN @ + GAS_STORAGE_CLEAR_REFUND ELSE @,
            !.state = set_storage(@, current_target, key, new_value),
            !.pc = @ + 1]

-----------------------------------------------------------------------------
(* The dispatcher calls one handler at a time on the frame, and stops      *)
(* calling once a handler has raised.                                      *)

Call(name, r) ==
    /\ fault = "none"
    /\ pc < MaxCalls
    /\ pre' = [stack |-> stack, gas_left |-> gas_left,
               refund_counter |-> refund_counter, pc |-> pc, state |-> state]
    /\ op' = name
    /\ fault' = r.fault
    /\ stack' = r.stack
    /\ gas_left' = r.gas_left
    /\ refund_counter' = r.refund_counter
    /\ pc' = r.pc
    /\ state' = r.state
    /\ UNCHANGED <<current_target, env>>

call_add == Call("add", add(Evm))

call_sub == Call("sub", sub(Evm))

call_mul == Call("mul", mul(Evm))

call_div == Call("div", div(Evm))

call_sdiv == Call("sdiv", sdiv(Evm))

call_mod == Call("mod", mod(Evm))

call_smod == Call("smod", smod(Evm))

call_addmod == Call("addmod", addmod(Evm))

call_mulmod == Call("mulmod", mulmod(Evm))

call_exp == Call("exp", exp(Evm))

call_signextend == Call("signextend", signextend(Evm))

call_block_hash == Call("block_hash", block_hash(Evm))

call_coinbase == Call("coinbase", coinbase(Evm))

call_timestamp == Call("timestamp", timestamp(Evm))

call_number == Call("number", number(Evm))

call_difficulty == Call("difficulty", difficulty(Evm))

call_gas_limit == Call("gas_limit", gas_limit(Evm))

call_sload == Call("sload", sload(Evm))

call_sstore == Call("sstore", sstore(Evm))

-----------------------------------------------------------------------------
(* Frames the dispatcher may hand to a handler *)

InitWords == {0, 1, 3, 43, 44, U255_CEIL_VALUE, U256_MAX_VALUE}

SmallWords == {0, 3, U256_MAX_VALUE}

InitStacks ==
    {<<>>}
    \cup {<<a>> : a \in InitWords}
    \cup {<<b, a>> : a \in InitWords, b \in InitWords}
    \cup {<<c, b, a>> : a \in SmallWords, b \in SmallWords, c \in SmallWords}
    \cup {[i \in 1 .. n |-> 0] : n \in {STACK_LIMIT - 1, STACK_LIMIT}}

InitGas == {0, 4, 10, 5000, 25100}

\* Account "A" holds 3 under key 1; every other key of it reads as zero.
InitState == [a \in {"A", "B"} |->
                 IF a = "A" THEN (1 :> 3) ELSE (1 :> 1)]

\* Block 300 with its 256 most recent ancestors recorded, and block 3 with
\* only two of its three ancestors recorded.
InitEnvs ==
    { [number |-> 300, block_hashes |-> [i \in 1 .. 256 |-> i],
       coinbase |-> 7, time |-> 1, difficulty |-> 2, gas_limit |-> 9],
      [number |-> 3, block_hashes |-> <<11, 12>>,
       coinbase |-> 7, time |-> 1, difficulty |-> 2, gas_limit |-> 9] }

Init ==
    /\ stack \in InitStacks
    /\ gas_left \in InitGas
    /\ refund_counter = 0
    /\ pc = 0
    /\ state = InitState
    /\ current_target = "A"
    /\ env \in InitEnvs
    /\ op = "init"
    /\ fault = "none"
    /\ pre = [stack |-> stack, gas_left |-> gas_left,
              refund_counter |-> 0, pc |-> 0, state |-> InitState]

Next ==
    \/ call_add
    \/ call_sub
    \/ call_mul
    \/ call_div
    \/ call_sdiv
    \/ call_mod
    \/ call_smod
    \/ call_addmod
    \/ call_mulmod
    \/ call_exp
    \/ call_signextend
    \/ call_block_hash
    \/ call_coinbase
    \/ call_timestamp
    \/ call_number
    \/ call_difficulty
    \/ call_gas_limit
    \/ call_sload
    \/ call_sstore

Spec == Init /\ [][Next]_vars

\* sdiv called on every pair of words
InitSdiv ==
    /\ \E a \in Word, b \in Word : stack = <<b, a>>
    /\ gas_left = GAS_LOW
    /\ refund_counter = 0
    /\ pc = 0
    /\ state = InitState
    /\ current_target = "A"
    /\ env = [number |-> 3, block_hashes |-> <<11, 12>>,
              coinbase |-> 7, time |-> 1, difficulty |-> 2, gas_limit |-> 9]
    /\ op = "init"
    /\ fault = "none"
    /\ pre = [stack |-> stack, gas_left |-> gas_left,
              refund_counter |-> 0, pc |-> 0, state |-> InitState]

NextSdiv == call_sdiv

SpecSdiv == InitSdiv /\ [][NextSdiv]_vars

-----------------------------------------------------------------------------
(* What the properties below read of the last call *)

PreLen == Len(pre.stack)

\* the k-th word the call popped (1 = the top of the stack it was called on)
Popped(k) == pre.stack[PreLen - k + 1]

\* the stack the call was made on, without its n topmost words
PreWithout(n) == SubSeq(pre.stack, 1, PreLen - n)

Top == stack[Len(stack)]

StorageAt(st, address, key) ==
    IF key \in DOMAIN st[address] THEN st[address][key] ELSE 0

Signed(w) == IF w >= 2 ^ (WordBits - 1) THEN w - 2 ^ WordBits ELSE w

Sgn(v) == IF v > 0 THEN 1 ELSE IF v < 0 THEN -1 ELSE 0

Magnitude(v) == IF v < 0 THEN 0 - v ELSE v

\* the number of bytes needed to write e (0 for e = 0)
ByteLength(e) ==
    CHOOSE n \in 0 .. ((WordBits + 7) \div 8) :
        /\ e < 2 ^ (8 * n)
        /\ n > 0 => e >= 2 ^ (8 * (n - 1))

ExpCost(exponent) ==
    GAS_EXPONENTIATION
      + (IF exponent # 0 THEN GAS_EXPONENTIATION * ByteLength(exponent) ELSE 0)

SstoreCost(current_value, new_value) ==
    IF current_value = 0 /\ new_value # 0
    THEN GAS_STORAGE_SET ELSE GAS_STORAGE_UPDATE

Pushers == {"coinbase", "timestamp", "number", "difficulty", "gas_limit"}

FixedArith == {"add", "sub", "mul", "div", "sdiv", "mod", "smod", "addmod",
               "mulmod", "signextend"}

Handlers == FixedArith \cup Pushers \cup {"exp", "block_hash", "sload", "sstore"}

\* the number of words a handler pops
Pops(h) ==
    IF h \in {"addmod", "mulmod"} THEN 3
    ELSE IF h \in {"block_hash", "sload"} THEN 1
    ELSE IF h \in Pushers THEN 0
    ELSE 2

\* the cost of the handlers that charge a fixed cost before anything else
FixedCost(h) ==
    IF h \in {"add", "sub"} THEN GAS_VERY_LOW
    ELSE IF h \in {"addmod", "mulmod"} THEN GAS_MID
    ELSE IF h \in Pushers THEN GAS_BASE
    ELSE IF h = "block_hash" THEN GAS_EXTERNAL
    ELSE IF h = "sload" THEN GAS_SLOAD
    ELSE GAS_LOW

ChargesFirst(h) == h \in Handlers \ {"exp", "sstore"}

\* the cost of the last call, where the frame it was called on determines it
CostOfCall ==
    IF op = "exp" THEN ExpCost(Popped(2))
    ELSE IF op = "sstore"
         THEN SstoreCost(StorageAt(pre.state, current_target, Popped(1)),
                         Popped(2))
         ELSE FixedCost(op)

CostKnown == op \in Handlers /\ (ChargesFirst(op) \/ PreLen >= 2)

-----------------------------------------------------------------------------
(* C1: a successful sstore reduces gas_left by exactly GAS_STORAGE_SET     *)
(* when the value stored under the key was zero and the new value is not,  *)
(* and by exactly GAS_STORAGE_UPDATE for every other transition; after it  *)
(* the storage of the current account holds the new value under the key.   *)
C1_SstoreCostAndWrite ==
    (op = "sstore" /\ fault = "none") =>
        LET key == Popped(1)
            new_value == Popped(2)
            current_value == StorageAt(pre.state, current_target, key)
        IN  /\ gas_left = pre.gas_left - SstoreCost(current_value, new_value)
            /\ StorageAt(state, current_target, key) = new_value

C1_Witness ==
    /\ op = "sstore"
    /\ fault = "none"
    /\ StorageAt(pre.state, current_target, Popped(1)) = 0
    /\ Popped(2) # 0
    /\ gas_left = pre.gas_left - GAS_STORAGE_SET

(* C2: refund_counter never decreases and only sstore changes it: a        *)
(* successful sstore adds GAS_STORAGE_CLEAR_REFUND once when the stored    *)
(* value is non-zero and the new value is zero, and nothing otherwise; the *)
(* refund is not added to gas_left.                                        *)
C2_RefundOnlyOnClear ==
    /\ refund_counter >= pre.refund_counter
    /\ (op # "sstore" \/ fault # "none") =>
           refund_counter = pre.refund_counter
    /\ (op = "sstore" /\ fault = "none") =>
           LET current_value ==
                   StorageAt(pre.state, current_target, Popped(1))
               clears == current_value # 0 /\ Popped(2) = 0
           IN  /\ refund_counter = pre.refund_counter
                      + (IF clears THEN GAS_STORAGE_CLEAR_REFUND ELSE 0)
               /\ gas_left = pre.gas_left - GAS_STORAGE_UPDATE
                  \/ gas_left = pre.gas_left - GAS_STORAGE_SET

C2_Witness ==
    /\ op = "sstore"
    /\ fault = "none"
    /\ pre.pc = 1
    /\ refund_counter = pre.refund_counter + GAS_STORAGE_CLEAR_REFUND
    /\ gas_left = pre.gas_left - GAS_STORAGE_UPDATE

(* C3 as stated: exp called with gas_left below its dynamic cost signals   *)
(* OutOfGas and leaves the stack, gas_left and pc as they were.            *)
C3_ExpOutOfGasStackUnmodified ==
    (op = "exp" /\ PreLen >= 2 /\ pre.gas_left < ExpCost(Popped(2))) =>
        /\ fault = "OutOfGas"
        /\ stack = pre.stack
        /\ gas_left = pre.gas_left
        /\ pc = pre.pc

(* C3 amended: exp called on at least two words with gas_left below its    *)
(* dynamic cost signals OutOfGas before it pushes a result; its two        *)
(* operands are already popped, so the stack is the one it was called on   *)
(* without its two topmost words; gas_left and pc are as they were.        *)
C3_ExpOutOfGasOperandsPopped ==
    (op = "exp" /\ PreLen >= 2 /\ pre.gas_left < ExpCost(Popped(2))) =>
        /\ fault = "OutOfGas"
        /\ stack = PreWithout(2)
        /\ gas_left = pre.gas_left
        /\ pc = pre.pc

C3_Witness ==
    /\ op = "exp"
    /\ fault = "OutOfGas"
    /\ pre.gas_left >= GAS_EXPONENTIATION
    /\ Popped(2) # 0
    /\ stack = PreWithout(2)

(* C4: when the charge of sstore signals OutOfGas, the storage of every    *)
(* account is what it was before the call, and so are refund_counter and   *)
(* pc, also when the call would have cleared a non-zero value.             *)
C4_SstoreOutOfGasWritesNothing ==
    /\ (op = "sstore" /\ PreLen >= 2 /\ pre.gas_left < CostOfCall) =>
           fault = "OutOfGas"
    /\ (op = "sstore" /\ fault = "OutOfGas") =>
           /\ pre.gas_left < CostOfCall
           /\ state = pre.state
           /\ refund_counter = pre.refund_counter
           /\ pc = pre.pc

C4_Witness ==
    /\ op = "sstore"
    /\ fault = "OutOfGas"
    /\ StorageAt(pre.state, current_target, Popped(1)) # 0
    /\ Popped(2) = 0
    /\ state = pre.state

\* the word C5 says block_hash pushes for block_number
BlockHashResult(block_number) ==
    LET depth == env.number - block_number - 1
    IN  IF \/ block_number >= env.number
           \/ depth >= 256
           \/ depth + 1 > Len(env.block_hashes)
        THEN 0
        ELSE env.block_hashes[depth + 1]

SdivResult(a, b) ==
    IF b = 0 THEN 0
    ELSE IF a = 0 - 2 ^ (WordBits - 1) /\ b = 0 - 1 THEN a
    ELSE Sgn(a) * Sgn(b) * (Magnitude(a) \div Magnitude(b))

(* C6: for every pair of words a (popped first) and b (popped second),     *)
(* read as two's-complement integers, sdiv pushes 0 when b = 0, a when a   *)
(* is the least signed value and b = -1, and otherwise the word of the     *)
(* quotient truncated toward zero; the operand values never make it fault. *)
C6_SdivTruncates ==
    (op = "sdiv" /\ PreLen >= 2 /\ pre.gas_left >= GAS_LOW) =>
        /\ fault = "none"
        /\ Len(stack) = PreLen - 1
        /\ PreWithout(2) = SubSeq(stack, 1, Len(stack) - 1)
        /\ Top \in Word
        /\ Signed(Top) = SdivResult(Signed(Popped(1)), Signed(Popped(2)))

C6_Witness ==
    /\ op = "sdiv"
    /\ fault = "none"
    /\ Signed(Popped(1)) = 0 - 2 ^ (WordBits - 1)
    /\ Signed(Popped(2)) = 0 - 1
    /\ Top = Popped(1)

(* C7: gas_left is never negative and never larger than before the call;   *)
(* a handler whose cost exceeds gas_left signals OutOfGas and leaves       *)
(* gas_left as it was.                                                     *)
C7_GasNeverNegative ==
    /\ gas_left >= 0
    /\ gas_left <= pre.gas_left
    /\ (CostKnown /\ pre.gas_left < CostOfCall) =>
           (fault = "OutOfGas" /\ gas_left = pre.gas_left)
    /\ fault = "OutOfGas" => gas_left = pre.gas_left

C7_Witness ==
    /\ op = "mul"
    /\ fault = "OutOfGas"
    /\ pre.pc = 1
    /\ pre.gas_left > 0
    /\ gas_left = pre.gas_left

(* C8 as stated: the stack length stays within 0 .. 1024; the five pushing *)
(* handlers called on 1024 words signal StackOverflow and leave the stack  *)
(* as it was; any handler called on fewer words than it pops signals       *)
(* StackUnderflow.                                                         *)
C8_StackBoundsAnyGas ==
    /\ Len(stack) \in 0 .. 1024
    /\ (op \in Pushers /\ PreLen = 1024) =>
           (fault = "StackOverflow" /\ stack = pre.stack)
    /\ (op \in Handlers /\ PreLen < Pops(op)) => fault = "StackUnderflow"

(* C8 amended: the stack length stays within 0 .. 1024; the five pushing   *)
(* handlers called on 1024 words with gas_left >= 2 signal StackOverflow   *)
(* and leave the stack as it was; a handler called on fewer words than it  *)
(* pops signals StackUnderflow if gas_left covers the fixed cost it        *)
(* charges before popping (exp and sstore pop first and signal it whatever *)
(* gas_left is); with gas_left below that cost the handler signals         *)
(* OutOfGas instead, the stack as it was.                                  *)
C8_StackBoundsGasCovered ==
    /\ Len(stack) \in 0 .. 1024
    /\ (op \in Pushers /\ PreLen = 1024 /\ pre.gas_left >= GAS_BASE) =>
           (fault = "StackOverflow" /\ stack = pre.stack)
    /\ (op \in Handlers /\ PreLen < Pops(op)
          /\ (ChargesFirst(op) => pre.gas_left >= FixedCost(op))) =>
           fault = "StackUnderflow"
    /\ (op \in Handlers /\ ChargesFirst(op) /\ pre.gas_left < FixedCost(op)) =>
           (fault = "OutOfGas" /\ stack = pre.stack)

C8_Witness ==
    /\ op = "coinbase"
    /\ PreLen = 1024
    /\ pre.pc = 1
    /\ fault = "StackOverflow"
    /\ stack = pre.stack

C10_ChargeBeforePop ==
    op \in FixedArith =>
        /\ pre.gas_left < FixedCost(op) =>
               /\ fault = "OutOfGas"
               /\ stack = pre.stack
               /\ gas_left = pre.gas_left
        /\ (pre.gas_left >= FixedCost(op) /\ PreLen < Pops(op)) =>
               /\ fault = "StackUnderflow"
               /\ gas_left = pre.gas_left - FixedCost(op)

C10_Witness ==
    /\ op = "mulmod"
    /\ PreLen = 2
    /\ fault = "StackUnderflow"
    /\ gas_left = pre.gas_left - GAS_MID

=============================================================================
